---- MODULE Spec2Model ----
(***************************************************************************)
(* The inbound-email relay of aquamark-email-gateway: the handler of       *)
(* POST /webhook/inbound in its three deployment variants                  *)
(*   "inline"  - src/index.js          (per-file call, inline content)     *)
(*   "staging" - src/unnamed/part_001  (per-file call, staged temp object) *)
(*   "async"   - src/unnamed/part_002  (batch job, poll, archive)          *)
(* Every await of the handler is one step; the code between two awaits is  *)
(* part of the step that precedes it.                                      *)
(***************************************************************************)
EXTENDS Integers, Sequences, FiniteSets, TLC

----------------------------------------------------------------------------
(* Bounds of the model *)

MaxAttachments == 2
MaxZipEntries == 2
MaxEntries == 4
MaxClock == 1
MaxConcAttachments == 1
MaxSeqAttachments == 2
MaxSeqZipEntries == 1

(* Program constants *)

MaxPollAttempts == 15
PollDelay == 2

\* Identities of webhook deliveries. Spec and SpecBatch run delivery 1; the
\* other identity stays idle in them.
Reqs == {1, 2}

----------------------------------------------------------------------------
(* Strings the code inspects are sequences of characters; a file name is   *)
(* its base and the characters after its last dot.                         *)

Variants == {"inline", "staging", "async"}

AtIndex(s) ==
  IF \E i \in 1..Len(s) : s[i] = "@"
    THEN CHOOSE i \in 1..Len(s) : s[i] = "@" /\ \A j \in 1..(i - 1) : s[j] # "@"
    ELSE 0

\* String.prototype.split('@')[0]: the text before the first '@', or the whole
\* text when it holds none.
SplitAtFirst(s) ==
  IF AtIndex(s) = 0 THEN s ELSE SubSeq(s, 1, AtIndex(s) - 1)

HasAt(s) == AtIndex(s) # 0

ToLowerCase(ext) ==
  CASE ext = "PDF" -> "pdf"
    [] ext = "Pdf" -> "pdf"
    [] ext = "TXT" -> "txt"
    [] OTHER -> ext

EndsWithPdfExact(name) == name.ext = "pdf"

\* name.toLowerCase().endsWith('.pdf')
EndsWithPdf(name) == ToLowerCase(name.ext) = "pdf"

----------------------------------------------------------------------------
(* Inputs *)

\* recipientEmail = emailData.ToFull?.[0]?.Email || emailData.To; present is
\* FALSE when both are missing.
Recipients ==
  { [present |-> TRUE, addr |-> <<"a", "@", "g">>],
    [present |-> TRUE, addr |-> <<"i", "@", "g">>],
    [present |-> TRUE, addr |-> <<"x", "@", "g">>],
    [present |-> TRUE, addr |-> <<"a">>],
    [present |-> TRUE, addr |-> <<"x">>],
    [present |-> FALSE, addr |-> << >>] }

\* senderEmail = emailData.From || emailData.FromFull?.Email, always present.
SenderEmail == "b@k"

AttachmentKinds ==
  { [Name |-> [base |-> "a", ext |-> "pdf"], Content |-> "orig", ContentType |-> "application/pdf"],
    [Name |-> [base |-> "b", ext |-> "PDF"], Content |-> "orig", ContentType |-> "application/pdf"],
    [Name |-> [base |-> "c", ext |-> "txt"], Content |-> "orig", ContentType |-> "text/plain"] }

SeqsUpTo(S, n) == UNION { [1..k -> S] : k \in 0..n }

AttachmentLists == SeqsUpTo(AttachmentKinds, MaxAttachments)

Emails ==
  [ To : Recipients, From : {SenderEmail}, Attachments : AttachmentLists ]

NoEmail == [ To |-> [present |-> FALSE, addr |-> << >>], From |-> "", Attachments |-> << >> ]

\* The table email_gateway_funders.
Directory ==
  { [funder_id |-> <<"a">>, active |-> TRUE, destination_email |-> "ops@a",
     user_email |-> "u@a", company_name |-> "A"],
    [funder_id |-> <<"i">>, active |-> FALSE, destination_email |-> "ops@i",
     user_email |-> "u@i", company_name |-> "I"] }

NoFunder ==
  [funder_id |-> << >>, active |-> FALSE, destination_email |-> "",
   user_email |-> "", company_name |-> ""]

QueryAnyFlag(key) == { d \in Directory : d.funder_id = key }

\* .eq('funder_id', funderId).eq('active', true)
Query(key) == { d \in Directory : d.funder_id = key /\ d.active = TRUE }

\* .single(): the one row, or an error when there is not exactly one.
Single(rows) ==
  IF Cardinality(rows) = 1 THEN CHOOSE d \in rows : TRUE ELSE NoFunder

\* What the status endpoint and the submission can report.
ErrorMessages == {"e1", "e2"}
UpstreamStatuses == {"502", "503"}

\* Entries of a result archive (adm-zip: an entry is a directory exactly when
\* its name ends in a slash).
EntryKinds ==
  { [entryName |-> [base |-> "a", ext |-> "pdf"], isDirectory |-> FALSE],
    [entryName |-> [base |-> "b", ext |-> "PDF"], isDirectory |-> FALSE],
    [entryName |-> [base |-> "c", ext |-> "txt"], isDirectory |-> FALSE],
    [entryName |-> [base |-> "d", ext |-> "/"], isDirectory |-> TRUE] }

Archives(n) == SeqsUpTo(EntryKinds, n)

----------------------------------------------------------------------------
(* State *)

VARIABLES
  variant,        \* the deployed variant
  zipLimit,       \* the most entries an archive served by the job service holds
  clock,          \* Date.now()
  storage,        \* objects in the bucket funder-logos under temp/
  pc,             \* where each request's handler is suspended
  email,          \* req.body
  funderId, funder,
  idx,            \* position of the for-of loop over attachments
  tempFileName, tempFiles,
  cleanIdx,       \* position of the for-of loop over tempFiles
  watermarkedAttachments,
  attempts, jobCompleted, downloadUrl,
  responses,      \* what was written to res, in order
  calls,          \* number of calls made on each collaborator
  attResult,      \* how the processing of each attachment ended
  allPending,     \* every status poll so far reported pending
  lastPoll,       \* what the latest status poll reported
  waited,         \* time-units slept in the poll loop
  removed,        \* the object names handed to storage.remove, in order
  downloaded,     \* what the download of the job's result returned
  sent,           \* the messages handed to sendEmail, accepted or not
  submitted       \* what the submission of the batch job returned

shared == <<variant, zipLimit, clock, storage>>
local == <<email, funderId, funder, idx, tempFileName, tempFiles, cleanIdx,
           watermarkedAttachments, attempts, jobCompleted, downloadUrl>>
observed == <<responses, calls, attResult, allPending, lastPoll, waited, removed, downloaded, sent,
              submitted>>
vars == <<shared, pc, local, observed>>

NoCalls ==
  [directory |-> 0, upload |-> 0, remove |-> 0, watermark |-> 0, poll |-> 0,
   download |-> 0, send |-> 0]

NoPoll == [kind |-> "none", error_message |-> ""]
NoSubmit == [kind |-> "none", status |-> ""]
NoDownload == [kind |-> "none", zip |-> << >>]
NoName == [base |-> "", ext |-> ""]
NoTemp == [t |-> 0, name |-> NoName]

\* The state before any handler code has run: the requests in `started` have
\* arrived with the emails es gives them, the others have not arrived.
InitRequests(es, started) ==
  /\ email = es
  /\ pc = [q \in Reqs |-> IF q \in started THEN "received" ELSE "idle"]
  /\ funderId = [q \in Reqs |-> << >>]
  /\ funder = [q \in Reqs |-> NoFunder]
  /\ idx = [q \in Reqs |-> 1]
  /\ tempFileName = [q \in Reqs |-> NoTemp]
  /\ tempFiles = [q \in Reqs |-> << >>]
  /\ cleanIdx = [q \in Reqs |-> 1]
  /\ watermarkedAttachments = [q \in Reqs |-> << >>]
  /\ attempts = [q \in Reqs |-> 0]
  /\ jobCompleted = [q \in Reqs |-> FALSE]
  /\ downloadUrl = [q \in Reqs |-> "null"]
  /\ responses = [q \in Reqs |-> << >>]
  /\ calls = [q \in Reqs |-> NoCalls]
  /\ attResult = [q \in Reqs |-> [i \in 1..Len(IF q \in started THEN es[q].Attachments ELSE << >>) |-> "none"]]
  /\ allPending = [q \in Reqs |-> TRUE]
  /\ lastPoll = [q \in Reqs |-> NoPoll]
  /\ waited = [q \in Reqs |-> 0]
  /\ removed = [q \in Reqs |-> << >>]
  /\ downloaded = [q \in Reqs |-> NoDownload]
  /\ sent = [q \in Reqs |-> << >>]
  /\ submitted = [q \in Reqs |-> NoSubmit]

InitRequest(r, e) == InitRequests([q \in Reqs |-> IF q = r THEN e ELSE NoEmail], {r})

Init ==
  /\ variant \in Variants
  /\ zipLimit = MaxZipEntries
  /\ clock = 0
  /\ storage = {}
  /\ \E e \in Emails : InitRequest(1, e)

----------------------------------------------------------------------------
(* Responses *)

Response(status, body, count) == [status |-> status, body |-> body, count |-> count]

FunderNotFoundAsFailure == Response(500, <<"error", "Funder not found">>, 0)

FunderNotFound == Response(404, <<"error", "Funder not found">>, 0)
NoAttachments == Response(200, <<"message", "No attachments to process">>, 0)
NoPdfAttachments == Response(200, <<"message", "No PDF attachments to process">>, 0)
AllFailed == Response(500, <<"error", "Watermarking failed for all attachments">>, 0)
InternalServerError == Response(500, <<"error", "Internal server error">>, 0)
Forwarded(n) == Response(200, <<"success", "Email processed and forwarded">>, n)

\* The inner catch answering without the error's message.
ProcessingFailedWithoutMessage(message) == Response(500, <<"error", "Processing failed">>, 0)

\* The inner catch of the batch variant: Processing failed: ${error.message}
ProcessingFailed(message) == Response(500, <<"error", "Processing failed">> \o message, 0)

\* throw new Error('Watermarking job timed out')
JobTimedOut == ProcessingFailed(<<"Watermarking job timed out">>)

\* throw new Error(`Watermarking job failed: ${status.error_message}`)
JobFailed(message) == ProcessingFailed(<<"Watermarking job failed", message>>)

\* throw new Error('No PDF files found in watermarked ZIP')
EmptyArchiveResult == ProcessingFailed(<<"No PDF files found in watermarked ZIP">>)

Goto(r, where) ==
  /\ pc' = [pc EXCEPT ![r] = where]
  /\ UNCHANGED responses

\* A response written without leaving the handler (a missing return).
RespondWithoutReturn(r, resp) ==
  /\ responses' = [responses EXCEPT ![r] = Append(@, resp)]
  /\ pc' = pc

\* res.status(..).json(..) followed by the end of the handler.
Respond(r, resp) ==
  /\ responses' = [responses EXCEPT ![r] = Append(@, resp)]
  /\ pc' = [pc EXCEPT ![r] = "done"]

Called(r, what) == calls' = [calls EXCEPT ![r][what] = @ + 1]

----------------------------------------------------------------------------
(* Tenant lookup: common to the three variants *)

Attachments(r) == email[r].Attachments

\* Start of the handler up to the directory query. recipientEmail.split throws a
\* TypeError when no recipient is present; the outer catch answers 500.
Receive(r) ==
  /\ pc[r] = "received"
  /\ IF ~email[r].To.present
       THEN /\ Respond(r, InternalServerError)
            /\ UNCHANGED funderId
       ELSE /\ funderId' = [funderId EXCEPT ![r] = SplitAtFirst(email[r].To.addr)]
            /\ pc' = [pc EXCEPT ![r] = "lookup"]
            /\ UNCHANGED responses
  /\ UNCHANGED <<shared, email, funder, idx, tempFileName, tempFiles, cleanIdx,
                 watermarkedAttachments, attempts, jobCompleted, downloadUrl>>
  /\ UNCHANGED <<calls, attResult, allPending, lastPoll, waited, removed, downloaded, sent, submitted>>

\* What the directory query can answer: the single active row for the key, or
\* an error (no such row, or the query itself failed).
LookupOutcomes(key) == {Single(Query(key)), NoFunder}

\* att => att.Name.toLowerCase().endsWith('.pdf')
IsPdf(att) == EndsWithPdf(att.Name)

pdfAttachments(r) == SelectSeq(Attachments(r), IsPdf)

\* Where the handler goes once the funder is known, up to its next await.
AfterLookup(r) ==
  IF Len(Attachments(r)) = 0 THEN "noAttachments"
  ELSE IF variant = "async"
    THEN (IF Len(pdfAttachments(r)) = 0 THEN "noPdf" ELSE "submit")
    ELSE "loop"

\* The answer of the directory query, and the code that follows it up to the
\* next await.
LookupFunder(r) ==
  /\ pc[r] = "lookup"
  /\ Called(r, "directory")
  /\ \E row \in LookupOutcomes(funderId[r]) :
       IF row = NoFunder
         THEN /\ Respond(r, FunderNotFound)
              /\ UNCHANGED funder
         ELSE /\ funder' = [funder EXCEPT ![r] = row]
              /\ CASE AfterLookup(r) = "noAttachments" -> Respond(r, NoAttachments)
                   [] AfterLookup(r) = "noPdf" -> Respond(r, NoPdfAttachments)
                   [] OTHER -> /\ pc' = [pc EXCEPT ![r] = AfterLookup(r)]
                               /\ UNCHANGED responses
  /\ UNCHANGED <<shared, email, funderId, idx, tempFileName, tempFiles, cleanIdx,
                 watermarkedAttachments, attempts, jobCompleted, downloadUrl>>
  /\ UNCHANGED <<attResult, allPending, lastPoll, waited, removed, downloaded, sent, submitted>>

----------------------------------------------------------------------------
(* Per-file variants: the loop over the attachments *)

FinishLoopAnyFailure(r) ==
  IF \/ Len(watermarkedAttachments[r]) = 0
     \/ \E i \in DOMAIN attResult[r] :
          attResult[r][i] \in {"uploadError", "uploadExists", "watermarkError", "downloadError"}
    THEN Respond(r, AllFailed)
    ELSE Goto(r, "send")

\* The loop's end going on to the mail send whatever was accumulated.
FinishLoopAlwaysSends(r) == Goto(r, "send")

\* if (watermarkedAttachments.length === 0) return 500; otherwise go on to send.
FinishLoop(r) ==
  IF Len(watermarkedAttachments[r]) = 0
    THEN Respond(r, AllFailed)
    ELSE Goto(r, "send")

\* The accumulation with the newest attachment put first.
PushFront(r, att) ==
  watermarkedAttachments' = [watermarkedAttachments EXCEPT ![r] = <<att>> \o @]

\* The processing of the current attachment is over (pushed, skipped or caught).
NextAttachment(r, result) ==
  /\ attResult' = [attResult EXCEPT ![r][idx[r]] = result]
  /\ idx' = [idx EXCEPT ![r] = @ + 1]
  /\ Goto(r, "loop")

Push(r, att) ==
  watermarkedAttachments' = [watermarkedAttachments EXCEPT ![r] = Append(@, att)]

NeedsCleanupOnSuccessOnly(r) ==
  variant = "staging" /\ Len(tempFiles[r]) > 0 /\ Len(watermarkedAttachments[r]) > 0

\* for (const tempFile of tempFiles) has something to iterate over.
NeedsCleanup(r) == variant = "staging" /\ Len(tempFiles[r]) > 0

\* The head of for (const attachment of attachments), up to the next await; the
\* staging variant skips a file whose name does not end in .pdf.
LoopNext(r) ==
  /\ pc[r] = "loop"
  /\ variant \in {"inline", "staging"}
  /\ IF idx[r] > Len(Attachments(r))
       THEN /\ IF NeedsCleanup(r)
                 THEN Goto(r, "cleanup")
                 ELSE FinishLoop(r)
            /\ UNCHANGED <<idx, tempFileName, attResult>>
       ELSE IF variant = "staging" /\ ~IsPdf(Attachments(r)[idx[r]])
         THEN /\ NextAttachment(r, "skipped")
              /\ UNCHANGED tempFileName
       ELSE IF variant = "staging"
         THEN /\ tempFileName' = [tempFileName EXCEPT ![r] =
                    [t |-> clock, name |-> Attachments(r)[idx[r]].Name]]
              /\ Goto(r, "upload")
              /\ UNCHANGED <<idx, attResult>>
       ELSE /\ Goto(r, "watermark")
            /\ UNCHANGED <<idx, tempFileName, attResult>>
  /\ UNCHANGED <<shared, email, funderId, funder, tempFiles, cleanIdx,
                 watermarkedAttachments, attempts, jobCompleted, downloadUrl>>
  /\ UNCHANGED <<calls, allPending, lastPoll, waited, removed, downloaded, sent, submitted>>

\* storage.upload(tempFileName, .., {upsert: false}): an error when the object
\* exists already or the call fails; tempFiles.push only after a success.
UploadTemp(r) ==
  /\ pc[r] = "upload"
  /\ Called(r, "upload")
  /\ IF tempFileName[r] \in storage
       THEN \* upsert: false, the object exists
            /\ NextAttachment(r, "uploadExists")
            /\ UNCHANGED <<storage, tempFiles>>
       ELSE \E uploaded \in BOOLEAN :
              IF uploaded
                THEN /\ storage' = storage \cup {tempFileName[r]}
                     /\ tempFiles' = [tempFiles EXCEPT ![r] = Append(@, tempFileName[r])]
                     /\ Goto(r, "watermark")
                     /\ UNCHANGED <<idx, attResult>>
                ELSE /\ NextAttachment(r, "uploadError")
                     /\ UNCHANGED <<storage, tempFiles>>
  /\ UNCHANGED <<variant, zipLimit, clock, email, funderId, funder, tempFileName, cleanIdx,
                 watermarkedAttachments, attempts, jobCompleted, downloadUrl>>
  /\ UNCHANGED <<allPending, lastPoll, waited, removed, downloaded, sent, submitted>>

WatermarkOutcomes == {"ok", "non2xx", "throw", "badJson"}

\* The parsed body of the watermarking service's 2xx answer (inline variant).
WatermarkedFile == [content |-> "watermarked"]

\* The pushed attachment carrying the inbound content.
FromInbound(attachment, watermarkedFile) ==
  [Name |-> attachment.Name, Content |-> attachment.Content,
   ContentType |-> attachment.ContentType]

\* { Name: attachment.Name, Content: watermarkedFile.content,
\*   ContentType: attachment.ContentType }
FromResponse(attachment, watermarkedFile) ==
  [Name |-> attachment.Name, Content |-> watermarkedFile.content,
   ContentType |-> attachment.ContentType]

\* The per-file call of the watermarking API. Inline variant: the answer holds
\* the content; staging variant: the answer holds file_url, fetched next.
CallWatermark(r) ==
  /\ pc[r] = "watermark"
  /\ Called(r, "watermark")
  /\ \E o \in WatermarkOutcomes :
       IF o # "ok"
         THEN /\ NextAttachment(r, "watermarkError")
              /\ UNCHANGED watermarkedAttachments
       ELSE IF variant = "inline"
         THEN /\ Push(r, FromResponse(Attachments(r)[idx[r]], WatermarkedFile))
              /\ NextAttachment(r, "ok")
         ELSE /\ Goto(r, "download")
              /\ UNCHANGED <<idx, attResult, watermarkedAttachments>>
  /\ UNCHANGED <<shared, email, funderId, funder, tempFileName, tempFiles, cleanIdx,
                 attempts, jobCompleted, downloadUrl>>
  /\ UNCHANGED <<allPending, lastPoll, waited, removed, downloaded, sent, submitted>>

DownloadOutcomes == {"ok", "non2xx", "throw"}

\* fetch(watermarkedFile.file_url) and arrayBuffer(): the response status is not
\* looked at, so the body of a non-2xx answer is pushed as well.
DownloadResult(r) ==
  /\ pc[r] = "download"
  /\ Called(r, "download")
  /\ \E o \in DownloadOutcomes :
       IF o = "throw"
         THEN /\ NextAttachment(r, "downloadError")
              /\ UNCHANGED watermarkedAttachments
         ELSE /\ Push(r, [Name |-> Attachments(r)[idx[r]].Name,
                          Content |-> IF o = "ok" THEN "watermarked" ELSE "errorBody",
                          ContentType |-> "application/pdf"])
              /\ NextAttachment(r, IF o = "ok" THEN "ok" ELSE "downloadNon2xx")
  /\ UNCHANGED <<shared, email, funderId, funder, tempFileName, tempFiles, cleanIdx,
                 attempts, jobCompleted, downloadUrl>>
  /\ UNCHANGED <<allPending, lastPoll, waited, removed, downloaded, sent, submitted>>

\* One turn of for (const tempFile of tempFiles): storage.remove([tempFile]),
\* whose failure is only logged; after the last one, the check for no result.
RemoveTemp(r) ==
  /\ pc[r] = "cleanup"
  /\ Called(r, "remove")
  /\ removed' = [removed EXCEPT ![r] = Append(@, tempFiles[r][cleanIdx[r]])]
  /\ \E gone \in BOOLEAN :
       storage' = IF gone THEN storage \ {tempFiles[r][cleanIdx[r]]} ELSE storage
  /\ cleanIdx' = [cleanIdx EXCEPT ![r] = @ + 1]
  /\ IF cleanIdx[r] >= Len(tempFiles[r]) THEN FinishLoop(r) ELSE Goto(r, "cleanup")
  /\ UNCHANGED <<variant, zipLimit, clock, email, funderId, funder, idx, tempFileName, tempFiles,
                 watermarkedAttachments, attempts, jobCompleted, downloadUrl>>
  /\ UNCHANGED <<attResult, allPending, lastPoll, waited, downloaded, sent, submitted>>

\* Date.now() moves on; only the staging variant reads it.
Tick ==
  /\ variant = "staging"
  /\ clock < MaxClock
  /\ \E r \in Reqs : pc[r] \notin {"idle", "done"}
  /\ clock' = clock + 1
  /\ UNCHANGED <<variant, zipLimit, storage, pc, local, observed>>

----------------------------------------------------------------------------
(* Batch variant: submission, job-status polling, archive *)

SubmitOutcomes ==
  { [kind |-> k, status |-> "200"] : k \in {"ok", "throw", "badJson"} }
    \cup { [kind |-> "non2xx", status |-> s] : s \in UpstreamStatuses }

\* fetch(FUNDER_API_URL) with the whole files array; !ok throws
\* Watermarking API failed (${status}): ${errorText} into the inner catch.
SubmitJob(r) ==
  /\ pc[r] = "submit"
  /\ Called(r, "watermark")
  /\ \E o \in SubmitOutcomes :
       /\ submitted' = [submitted EXCEPT ![r] = o]
       /\ CASE o.kind = "ok" -> Goto(r, "poll")
            [] o.kind = "non2xx" ->
                 Respond(r, ProcessingFailed(<<"Watermarking API failed", o.status, "errorText">>))
            [] o.kind = "throw" -> Respond(r, ProcessingFailed(<<"request failed">>))
            [] OTHER -> Respond(r, ProcessingFailed(<<"invalid json">>))
  /\ UNCHANGED <<shared, local>>
  /\ UNCHANGED <<attResult, allPending, lastPoll, waited, removed, downloaded, sent>>

PollOutcomes ==
  { [kind |-> k, error_message |-> ""] :
       k \in {"pending", "other", "completed", "non2xx", "throw", "badJson"} }
    \cup { [kind |-> "failed", error_message |-> m] : m \in ErrorMessages }

\* The loop test without the attempt ceiling.
LoopContinuesUntilCompleted(n, completed) == ~completed

LoopContinuesOneMore(n, completed) == n <= MaxPollAttempts /\ ~completed

\* while (attempts < 15 && !jobCompleted)
LoopContinues(n, completed) == n < MaxPollAttempts /\ ~completed

\* The loop left, with the timeout decided by the attempts used up.
AfterLoopByAttempts(n, completed) ==
  IF completed /\ n < MaxPollAttempts THEN "download" ELSE "timeout"

\* if (!jobCompleted) throw new Error('Watermarking job timed out')
AfterLoop(n, completed) == IF completed THEN "download" ELSE "timeout"

\* What a status poll makes of the job: "continue" (attempts++ and test the
\* loop again), "completed", or the error thrown into the inner catch.
PollVerdictSwallowsFailed(o) ==
  CASE o.kind = "completed" -> "completed"
    [] o.kind \in {"throw", "badJson"} -> "throw"
    [] OTHER -> "continue"

PollVerdict(o) ==
  CASE o.kind = "completed" -> "completed"
    [] o.kind = "failed" -> "failed"
    [] o.kind \in {"throw", "badJson"} -> "throw"
    [] OTHER -> "continue"

\* One turn of the poll loop: the 2 s sleep, the status request, and the code
\* that follows up to the next await.
PollJob(r) ==
  /\ pc[r] = "poll"
  /\ Called(r, "poll")
  /\ waited' = [waited EXCEPT ![r] = @ + PollDelay]
  /\ \E o \in PollOutcomes :
       /\ allPending' = [allPending EXCEPT ![r] = @ /\ o.kind = "pending"]
       /\ lastPoll' = [lastPoll EXCEPT ![r] = o]
       /\ CASE PollVerdict(o) = "throw" ->
                 /\ Respond(r, ProcessingFailed(<<"status request failed">>))
                 /\ UNCHANGED <<attempts, jobCompleted, downloadUrl>>
            [] PollVerdict(o) = "failed" ->
                 /\ Respond(r, JobFailed(o.error_message))
                 /\ UNCHANGED <<attempts, jobCompleted, downloadUrl>>
            [] PollVerdict(o) = "completed" ->
                 /\ jobCompleted' = [jobCompleted EXCEPT ![r] = TRUE]
                 /\ downloadUrl' = [downloadUrl EXCEPT ![r] = "download_url"]
                 /\ attempts' = [attempts EXCEPT ![r] = @ + 1]
                 /\ IF LoopContinues(attempts[r] + 1, TRUE)
                      THEN Goto(r, "poll")
                      ELSE IF AfterLoop(attempts[r] + 1, TRUE) = "download"
                        THEN Goto(r, "downloadZip")
                        ELSE Respond(r, JobTimedOut)
            [] OTHER ->
                 /\ attempts' = [attempts EXCEPT ![r] = @ + 1]
                 /\ UNCHANGED <<jobCompleted, downloadUrl>>
                 /\ IF LoopContinues(attempts[r] + 1, FALSE)
                      THEN Goto(r, "poll")
                      ELSE IF AfterLoop(attempts[r] + 1, FALSE) = "download"
                        THEN Goto(r, "downloadZip")
                        ELSE Respond(r, JobTimedOut)
  /\ UNCHANGED <<shared, email, funderId, funder, idx, tempFileName, tempFiles, cleanIdx,
                 watermarkedAttachments>>
  /\ UNCHANGED <<attResult, removed, downloaded, sent, submitted>>

EligibleEntryExact(entry) == ~entry.isDirectory /\ EndsWithPdfExact(entry.entryName)

\* entry => !entry.isDirectory && entry.entryName.toLowerCase().endsWith('.pdf')
EligibleEntry(entry) == ~entry.isDirectory /\ EndsWithPdf(entry.entryName)

ToAttachment(entry) ==
  [Name |-> entry.entryName, Content |-> "watermarked", ContentType |-> "application/pdf"]

\* zipEntries.filter(..).map(..)
Unpack(z) ==
  LET kept == SelectSeq(z, EligibleEntry)
  IN  [i \in 1..Len(kept) |-> ToAttachment(kept[i])]

ZipOutcomes(n) ==
  { [kind |-> k, zip |-> << >>] : k \in {"throw", "non2xx", "notZip"} }
    \cup { [kind |-> "ok", zip |-> z] : z \in Archives(n) }

\* fetch(downloadUrl), new AdmZip(..), the filter/map over its entries and the
\* check for an empty result.
DownloadZip(r) ==
  /\ pc[r] = "downloadZip"
  /\ Called(r, "download")
  /\ \E o \in ZipOutcomes(zipLimit) :
       /\ downloaded' = [downloaded EXCEPT ![r] = o]
       /\ CASE o.kind = "throw" ->
              /\ Respond(r, ProcessingFailed(<<"download request failed">>))
              /\ UNCHANGED watermarkedAttachments
         [] o.kind = "non2xx" ->
              /\ Respond(r, ProcessingFailed(<<"Failed to download watermarked file">>))
              /\ UNCHANGED watermarkedAttachments
         [] o.kind = "notZip" ->
              /\ Respond(r, ProcessingFailed(<<"Invalid or unsupported zip format">>))
              /\ UNCHANGED watermarkedAttachments
         [] OTHER ->
              IF Len(Unpack(o.zip)) = 0
                   THEN /\ Respond(r, EmptyArchiveResult)
                        /\ UNCHANGED watermarkedAttachments
                   ELSE /\ watermarkedAttachments' =
                             [watermarkedAttachments EXCEPT ![r] = Unpack(o.zip)]
                        /\ Goto(r, "send")
  /\ UNCHANGED <<shared, email, funderId, funder, idx, tempFileName, tempFiles, cleanIdx,
                 attempts, jobCompleted, downloadUrl>>
  /\ UNCHANGED <<attResult, allPending, lastPoll, waited, removed, sent, submitted>>

----------------------------------------------------------------------------
(* Outbound relay *)

GatewayFrom ==
  CASE variant = "staging" -> "gateway@aquamark.io"
    [] variant = "async" -> "Aquamark <gateway@aquamark.io>"
    [] OTHER -> ""

\* The message addressed to the original sender instead of the tenant.
MessageToSender(r) ==
  [ From |-> IF variant = "inline" THEN email[r].From ELSE GatewayFrom,
    ReplyTo |-> IF variant = "inline" THEN "" ELSE email[r].From,
    To |-> email[r].From,
    Attachments |-> watermarkedAttachments[r] ]

\* The argument of postmarkClient.sendEmail.
Message(r) ==
  [ From |-> IF variant = "inline" THEN email[r].From ELSE GatewayFrom,
    ReplyTo |-> IF variant = "inline" THEN "" ELSE email[r].From,
    To |-> funder[r].destination_email,
    Attachments |-> watermarkedAttachments[r] ]

\* attachments: watermarkedAttachments.length, or files_processed: files.length
ReportedCount(r) ==
  IF variant = "async" THEN Len(pdfAttachments(r)) ELSE Len(watermarkedAttachments[r])

\* What the handler answers when sendEmail rejects.
SendFailedAnswersSuccess(r) == Forwarded(ReportedCount(r))

SendFailed(r) ==
  IF variant = "async" THEN ProcessingFailed(<<"send failed">>) ELSE InternalServerError

\* await postmarkClient.sendEmail(..) and the success response after it.
SendEmail(r) ==
  /\ pc[r] = "send"
  /\ Called(r, "send")
  /\ \E accepted \in BOOLEAN :
       /\ sent' = [sent EXCEPT ![r] = Append(@, [message |-> Message(r), accepted |-> accepted])]
       /\ Respond(r, IF accepted THEN Forwarded(ReportedCount(r)) ELSE SendFailed(r))
  /\ UNCHANGED <<shared, local>>
  /\ UNCHANGED <<attResult, allPending, lastPoll, waited, removed, downloaded, submitted>>

----------------------------------------------------------------------------

Next ==
  \/ \E r \in Reqs : Receive(r)
  \/ \E r \in Reqs : LookupFunder(r)
  \/ \E r \in Reqs : LoopNext(r)
  \/ \E r \in Reqs : UploadTemp(r)
  \/ \E r \in Reqs : CallWatermark(r)
  \/ \E r \in Reqs : DownloadResult(r)
  \/ \E r \in Reqs : RemoveTemp(r)
  \/ \E r \in Reqs : SubmitJob(r)
  \/ \E r \in Reqs : PollJob(r)
  \/ \E r \in Reqs : DownloadZip(r)
  \/ \E r \in Reqs : SendEmail(r)
  \/ Tick

Spec == Init /\ [][Next]_vars

\* The batch variant alone, on one email with one PDF for the active tenant,
\* with result archives of up to MaxEntries entries.
InitBatch ==
  /\ variant = "async"
  /\ zipLimit = MaxEntries
  /\ clock = 0
  /\ storage = {}
  /\ InitRequest(1, [To |-> [present |-> TRUE, addr |-> <<"a", "@", "g">>],
                     From |-> SenderEmail,
                     Attachments |-> <<CHOOSE a \in AttachmentKinds : a.Name.ext = "pdf">>])

NextBatch ==
  \/ \E r \in Reqs : Receive(r)
  \/ \E r \in Reqs : LookupFunder(r)
  \/ \E r \in Reqs : SubmitJob(r)
  \/ \E r \in Reqs : PollJob(r)
  \/ \E r \in Reqs : DownloadZip(r)
  \/ \E r \in Reqs : SendEmail(r)

SpecBatch == InitBatch /\ [][NextBatch]_vars

\* The batch variant with every status call returning: a request waiting in
\* the poll loop gets its next turn.
SpecBatchFair == SpecBatch /\ \A r \in Reqs : WF_vars(PollJob(r))

\* Two deliveries handled concurrently by the staging variant: Node interleaves
\* the two handler invocations at their awaits. Both are for the active tenant.
ConcEmails ==
  [ To : {[present |-> TRUE, addr |-> <<"a", "@", "g">>]},
    From : {SenderEmail},
    Attachments : SeqsUpTo(AttachmentKinds, MaxConcAttachments) ]

InitConc ==
  /\ variant = "staging"
  /\ zipLimit = MaxZipEntries
  /\ clock = 0
  /\ storage = {}
  /\ \E es \in [Reqs -> ConcEmails] : InitRequests(es, Reqs)

NextConc ==
  \/ \E r \in Reqs : Receive(r)
  \/ \E r \in Reqs : LookupFunder(r)
  \/ \E r \in Reqs : LoopNext(r)
  \/ \E r \in Reqs : UploadTemp(r)
  \/ \E r \in Reqs : CallWatermark(r)
  \/ \E r \in Reqs : DownloadResult(r)
  \/ \E r \in Reqs : RemoveTemp(r)
  \/ \E r \in Reqs : SendEmail(r)
  \/ Tick

SpecConc == InitConc /\ [][NextConc]_vars

\* Two deliveries one after the other: the second POST is dispatched to the
\* handler after the first, for which the watermarking service was unavailable,
\* has been answered. The first request awaited the network several times, so
\* the millisecond clock has moved on by then.
SeqAttachmentLists ==
  SeqsUpTo({a \in AttachmentKinds : a.Name.ext \in {"pdf", "txt"}}, MaxSeqAttachments) \ {<< >>}

SecondEmail ==
  [ To |-> [present |-> TRUE, addr |-> <<"a", "@", "g">>],
    From |-> SenderEmail,
    Attachments |-> <<CHOOSE a \in AttachmentKinds : a.Name.ext = "pdf">> ]

\* The watermarking service was unavailable for a call of request q.
MetUnavailableService(q) ==
  \/ submitted[q].kind \in {"non2xx", "throw"}
  \/ \E i \in DOMAIN attResult[q] : attResult[q][i] = "watermarkError"

\* The next delivery, after one that met the unavailable service was answered.
Arrive(r) ==
  /\ pc[r] = "idle"
  /\ \A q \in Reqs \ {r} : pc[q] = "done" /\ MetUnavailableService(q)
  /\ email' = [email EXCEPT ![r] = SecondEmail]
  /\ attResult' = [attResult EXCEPT ![r] = [i \in 1..Len(SecondEmail.Attachments) |-> "none"]]
  /\ pc' = [pc EXCEPT ![r] = "received"]
  /\ clock' = clock + 1
  /\ UNCHANGED <<variant, zipLimit, storage, funderId, funder, idx, tempFileName, tempFiles,
                 cleanIdx, watermarkedAttachments, attempts, jobCompleted, downloadUrl>>
  /\ UNCHANGED <<responses, calls, allPending, lastPoll, waited, removed, downloaded, sent,
                 submitted>>

InitSeq ==
  /\ variant \in Variants
  /\ zipLimit = MaxSeqZipEntries
  /\ clock = 0
  /\ storage = {}
  /\ \E atts \in SeqAttachmentLists :
       InitRequest(1, [SecondEmail EXCEPT !.Attachments = atts])

NextSeq ==
  \/ \E r \in Reqs : Arrive(r)
  \/ \E r \in Reqs : Receive(r)
  \/ \E r \in Reqs : LookupFunder(r)
  \/ \E r \in Reqs : LoopNext(r)
  \/ \E r \in Reqs : UploadTemp(r)
  \/ \E r \in Reqs : CallWatermark(r)
  \/ \E r \in Reqs : DownloadResult(r)
  \/ \E r \in Reqs : RemoveTemp(r)
  \/ \E r \in Reqs : SubmitJob(r)
  \/ \E r \in Reqs : PollJob(r)
  \/ \E r \in Reqs : DownloadZip(r)
  \/ \E r \in Reqs : SendEmail(r)
  \/ Tick

SpecSeq == InitSeq /\ [][NextSeq]_vars

----------------------------------------------------------------------------
(* Vocabulary of the properties *)

Done(r) == pc[r] = "done"
Answer(r) == responses[r][Len(responses[r])]
Answered(r) == Len(responses[r]) > 0
PerFile == variant \in {"inline", "staging"}

\* The messages the mail provider accepted for request r.
Delivered(r) == SelectSeq(sent[r], LAMBDA m : m.accepted)

Names(atts) == [i \in 1..Len(atts) |-> atts[i].Name]

\* The attachments a per-file variant submits to watermarking: all of them in
\* the inline variant, those named *.pdf (any case) in the staging variant.
EligibleIdx(r) ==
  { i \in 1..Len(Attachments(r)) :
      variant = "staging" => Attachments(r)[i].Name.ext \in {"pdf", "PDF", "Pdf"} }

FailureResults == {"uploadError", "uploadExists", "watermarkError", "downloadError"}

FailedIdx(r) == { i \in EligibleIdx(r) : attResult[r][i] \in FailureResults }

\* Names of the eligible attachments that did not fail, in input order.
SucceededNames(r) ==
  LET atts == Attachments(r)
      F[i \in 0..Len(atts)] ==
        IF i = 0 THEN << >>
        ELSE IF i \in EligibleIdx(r) /\ i \notin FailedIdx(r)
          THEN Append(F[i - 1], atts[i].Name)
          ELSE F[i - 1]
  IN  F[Len(atts)]

LoopOver(r) == PerFile /\ (pc[r] = "send" \/ Done(r)) /\ idx[r] > Len(Attachments(r))

----------------------------------------------------------------------------
(* C1 *)

\* C1 (as stated): per-file variants, N eligible attachments of which M failed.
\* If 0 < M < N the request ends with the 200 success response and the single
\* outgoing message carries exactly the N-M attachments that succeeded; if
\* M = N no message is sent and the request fails with AllWatermarksFailed.
C1_AsStated ==
  \A r \in Reqs :
    (Done(r) /\ LoopOver(r) /\ Cardinality(EligibleIdx(r)) > 0) =>
      LET N == Cardinality(EligibleIdx(r))
          M == Cardinality(FailedIdx(r))
      IN  /\ (0 < M /\ M < N) =>
                /\ Answer(r).status = 200
                /\ Len(Delivered(r)) = 1
                /\ Names(Delivered(r)[1].message.Attachments) = SucceededNames(r)
          /\ M = N => (sent[r] = << >> /\ Answer(r) = AllFailed)

\* C1 (amended): per-file variants, N eligible attachments of which M failed.
\* If 0 < M < N the send is attempted exactly once, with exactly the N-M
\* attachments that succeeded, and the request ends with the 200 success
\* response when the mail provider accepts that message (with 500 when it
\* rejects it: the watermark failures themselves are never surfaced); if
\* M = N no send is attempted and the request fails with AllWatermarksFailed.
C1_PartialFailure ==
  \A r \in Reqs :
    (Done(r) /\ LoopOver(r) /\ Cardinality(EligibleIdx(r)) > 0) =>
      LET N == Cardinality(EligibleIdx(r))
          M == Cardinality(FailedIdx(r))
      IN  /\ (0 < M /\ M < N) =>
                /\ Len(sent[r]) = 1
                /\ Len(sent[r][1].message.Attachments) = N - M
                /\ Names(sent[r][1].message.Attachments) = SucceededNames(r)
                /\ sent[r][1].accepted => Answer(r) = Forwarded(N - M)
                /\ ~sent[r][1].accepted => Answer(r) = InternalServerError
                /\ Answer(r) # AllFailed
          /\ M = N => (sent[r] = << >> /\ Answer(r) = AllFailed /\ Answer(r).status = 500)

\* Two eligible attachments, one failed, the other relayed and accepted.
C1_Witness ==
  \E r \in Reqs :
    /\ Done(r) /\ LoopOver(r)
    /\ Cardinality(EligibleIdx(r)) = 2
    /\ Cardinality(FailedIdx(r)) = 1
    /\ Len(Delivered(r)) = 1
    /\ Answer(r).status = 200

----------------------------------------------------------------------------
(* C2, C3 *)

\* C2: batch variant. A job reported pending on 15 consecutive polls makes the
\* request fail with WatermarkJobTimeout after exactly 15 polls (never earlier,
\* never later); a job reported failed on poll k makes the request fail with
\* WatermarkJobFailed carrying the reported error message, and no further poll,
\* no download and no mail send is performed.
C2_TimeoutAndFailed ==
  /\ [] \A r \in Reqs :
          /\ (allPending[r] /\ calls[r].poll = MaxPollAttempts) =>
                (Done(r) /\ Answer(r) = JobTimedOut)
          /\ (allPending[r] /\ calls[r].poll > 0 /\ calls[r].poll < MaxPollAttempts) =>
                pc[r] = "poll"
          /\ (Answered(r) /\ Answer(r) = JobTimedOut) =>
                (calls[r].poll = MaxPollAttempts /\ calls[r].download = 0 /\ sent[r] = << >>)
          /\ calls[r].poll <= MaxPollAttempts
          /\ lastPoll[r].kind = "failed" =>
                /\ Done(r)
                /\ responses[r] = <<JobFailed(lastPoll[r].error_message)>>
                /\ calls[r].download = 0
                /\ calls[r].send = 0
                /\ sent[r] = << >>
  /\ [][\A r \in Reqs : lastPoll[r].kind = "failed" => calls'[r] = calls[r]]_vars

\* The 15th pending poll has timed the request out.
C2_WitnessTimeout ==
  \E r \in Reqs :
    allPending[r] /\ calls[r].poll = MaxPollAttempts /\ Done(r) /\ Answer(r) = JobTimedOut

\* C3 (as stated): batch variant. A poll that yields no terminal status - a
\* status other than completed/failed, a non-2xx status response, or a status
\* request that itself errors - does not end the request: polling continues
\* until a terminal status is seen or the 15 attempts are exhausted.
C3_NonTerminalPollContinues ==
  \A r \in Reqs :
    (lastPoll[r].kind \in {"pending", "other", "non2xx", "throw"}
       /\ calls[r].poll < MaxPollAttempts) => pc[r] = "poll"

----------------------------------------------------------------------------
(* C4 *)

Range(f) == { f[i] : i \in DOMAIN f }

\* C4: staging variant. Every temporary object the request uploaded has a
\* remove call issued by the same request before the response is sent, on every
\* exit path; nothing else is removed, and each object is removed once.
C4_TempFilesRemoved ==
  \A r \in Reqs :
    /\ Answered(r) => removed[r] = tempFiles[r]
    /\ Range(removed[r]) \subseteq Range(tempFiles[r])
    /\ calls[r].remove = Len(removed[r])
    /\ Len(tempFiles[r]) <= calls[r].upload

\* An object was staged, its watermarking failed, the request answered 500.
C4_Witness ==
  \E r \in Reqs :
    /\ variant = "staging"
    /\ Done(r) /\ Answer(r) = AllFailed
    /\ Len(tempFiles[r]) > 0
    /\ removed[r] = tempFiles[r]
    /\ \E i \in DOMAIN attResult[r] : attResult[r][i] \in {"watermarkError", "downloadError"}

----------------------------------------------------------------------------
(* C5, C6, C7 *)

NonDocumentOnly(r) ==
  /\ Len(Attachments(r)) > 0
  /\ \A i \in 1..Len(Attachments(r)) :
       Attachments(r)[i].Name.ext \notin {"pdf", "PDF", "Pdf"}

\* C5 (as stated): an email whose attachment list is non-empty and holds only
\* non-document files ends with the no-op success response (200), and the
\* watermarking service, the storage staging and the mail collaborator are
\* never invoked.
C5_NonDocumentsAreNoOp ==
  \A r \in Reqs :
    (NonDocumentOnly(r) /\ funder[r] # NoFunder) =>
      /\ calls[r].watermark = 0
      /\ calls[r].upload = 0
      /\ calls[r].send = 0
      /\ Done(r) => (Answer(r).status = 200 /\ Answer(r).body[1] = "message")

\* C6 (as stated): for a recipient address without an '@', the lookup fails
\* with MalformedRecipient and no downstream call is made: the tenant directory
\* is not queried, and no storage, watermarking or mail call occurs; the
\* request does not end in success.
C6_MalformedRecipient ==
  \A r \in Reqs :
    (email[r].To.present /\ ~HasAt(email[r].To.addr)) =>
      /\ calls[r] = NoCalls
      /\ Done(r) => Answer(r).status # 200

\* The directory holds no record for the key the recipient gives, or only an
\* inactive one.
NoActiveTenant(r) ==
  /\ email[r].To.present
  /\ \A d \in Directory : d.funder_id = SplitAtFirst(email[r].To.addr) => ~d.active

\* C7: when the directory holds no record for the derived key, or only a record
\* with active = false, the request ends with TenantNotFound (404) after exactly
\* one directory query, and no storage, watermarking or mail call is made.
C7_TenantNotFound ==
  \A r \in Reqs :
    NoActiveTenant(r) =>
      /\ calls[r].directory <= 1
      /\ \A c \in DOMAIN NoCalls \ {"directory"} : calls[r][c] = 0
      /\ pc[r] \in {"idle", "received", "lookup", "done"}
      /\ Done(r) => (responses[r] = <<FunderNotFound>> /\ calls[r].directory = 1)
      /\ sent[r] = << >>

\* The inactive tenant was looked up once and answered 404.
C7_Witness ==
  \E r \in Reqs :
    /\ email[r].To.present
    /\ SplitAtFirst(email[r].To.addr) = <<"i">>
    /\ Done(r) /\ Answer(r).status = 404
    /\ calls[r].directory = 1

----------------------------------------------------------------------------
(* C8 *)

\* The names of the entries of archive z that are files named *.pdf in any
\* letter case, in archive order.
DocumentEntryNames(z) ==
  LET F[i \in 0..Len(z)] ==
        IF i = 0 THEN << >>
        ELSE IF z[i].isDirectory = FALSE /\ z[i].entryName.ext \in {"pdf", "PDF", "Pdf"}
          THEN Append(F[i - 1], z[i].entryName)
          ELSE F[i - 1]
  IN  F[Len(z)]

\* C8: archive unpacking yields exactly one processed attachment per archive
\* entry that is not a directory and whose name ends in .pdf (any case), named
\* after the entry and in archive order; if no such entry exists the run fails
\* with EmptyArchiveResult (500) and no message is sent.
C8_ArchiveUnpacking ==
  \A r \in Reqs :
    downloaded[r].kind = "ok" =>
      LET expected == DocumentEntryNames(downloaded[r].zip)
      IN  IF expected = << >>
            THEN /\ Done(r)
                 /\ responses[r] = <<EmptyArchiveResult>>
                 /\ Answer(r).status = 500
                 /\ sent[r] = << >>
                 /\ calls[r].send = 0
            ELSE /\ Names(watermarkedAttachments[r]) = expected
                 /\ \A i \in 1..Len(watermarkedAttachments[r]) :
                      watermarkedAttachments[r][i].ContentType = "application/pdf"
                 /\ Answered(r) => Answer(r) # EmptyArchiveResult
                 /\ \A i \in 1..Len(sent[r]) :
                      Names(sent[r][i].message.Attachments) = expected

\* An archive of three documents (one named in upper case) and one other file
\* gave three attachments.
C8_Witness ==
  \E r \in Reqs :
    /\ downloaded[r].kind = "ok"
    /\ Len(downloaded[r].zip) = 4
    /\ Len(DocumentEntryNames(downloaded[r].zip)) = 3
    /\ \E i \in 1..4 : downloaded[r].zip[i].entryName.ext = "PDF"
    /\ Len(watermarkedAttachments[r]) = 3
    /\ Len(Delivered(r)) = 1

----------------------------------------------------------------------------
(* C9, C10 *)

\* The variant's own test for "nothing to process": no attachment at all, and
\* in the batch variant also no attachment named *.pdf.
NothingToProcess(r) ==
  \/ Len(Attachments(r)) = 0
  \/ variant = "async" /\ \A i \in 1..Len(Attachments(r)) :
        Attachments(r)[i].Name.ext \notin {"pdf", "PDF", "Pdf"}

\* How the run of a finished request ended, read off the calls it made.
TerminalState(r) ==
  CASE ~email[r].To.present -> "InternalError"
    [] calls[r].directory = 1 /\ funder[r] = NoFunder -> "TenantNotFound"
    [] NothingToProcess(r) -> "NoOp"
    [] Len(Delivered(r)) > 0 -> "Success"
    [] Len(sent[r]) > 0 -> "RelayTransmissionError"
    [] OTHER -> "WatermarkingFailed"

StatusOf(terminal) ==
  CASE terminal \in {"Success", "NoOp"} -> 200
    [] terminal = "TenantNotFound" -> 404
    [] OTHER -> 500

\* C9: every terminal state of a request maps to its HTTP status: 200 exactly
\* when the run ended in a successful relay transmission or in the no-op, 404
\* exactly when the tenant was not found or inactive, 500 for every other
\* failure; a 200 success is never returned when no message was transmitted.
C9_StatusOfTerminalState ==
  \A r \in Reqs :
    Done(r) =>
      /\ Len(responses[r]) = 1
      /\ Answer(r).status = StatusOf(TerminalState(r))
      /\ Answer(r).status \in {200, 404, 500}
      /\ Answer(r).body[1] = "success" <=> Len(Delivered(r)) = 1
      /\ Answer(r).status = 200 => (Len(Delivered(r)) = 1 \/ NothingToProcess(r))
      /\ Len(Delivered(r)) = 1 => Answer(r).status = 200
      /\ Answer(r).status = 404 <=> (email[r].To.present /\ funder[r] = NoFunder)

\* An inactive tenant answered 404.
C9_Witness ==
  \E r \in Reqs :
    /\ Done(r) /\ TerminalState(r) = "TenantNotFound" /\ Answer(r).status = 404
    /\ funderId[r] = <<"i">>

\* C10: the mail send is attempted at most once per request; a transmission
\* that fails is not retried and the request ends as a failure (500), never
\* with a success response.
C10_SendOnceNoRetry ==
  \A r \in Reqs :
    /\ calls[r].send <= 1
    /\ Len(sent[r]) = calls[r].send
    /\ (Len(sent[r]) = 1 /\ ~sent[r][1].accepted) =>
          /\ Done(r)
          /\ Len(responses[r]) = 1
          /\ Answer(r).status = 500
          /\ Answer(r).body[1] = "error"

\* The mail provider rejected the message and the request answered 500.
C10_Witness ==
  \E r \in Reqs :
    /\ Len(sent[r]) = 1 /\ ~sent[r][1].accepted
    /\ Done(r) /\ Answer(r).status = 500

----------------------------------------------------------------------------
(* C11 *)

\* The destination address the directory holds for the active tenant the
\* recipient of request r names.
DestinationOf(r) ==
  LET d == CHOOSE x \in Directory :
             x.funder_id = SplitAtFirst(email[r].To.addr) /\ x.active
  IN  d.destination_email

\* The processed attachments a finished run has accumulated: per-file variants,
\* one per attachment whose processing did not fail; batch variant, one per
\* document entry of the downloaded archive.
ProcessedNames(r) ==
  IF variant = "async" THEN DocumentEntryNames(downloaded[r].zip)
  ELSE SucceededNames(r)

SuccessResponse(r) ==
  Answered(r) /\ Answer(r).status = 200 /\ Answer(r).body[1] = "success"

\* C11: on a successful run the mail collaborator receives exactly one
\* outgoing message, addressed to the tenant's destination_email and carrying
\* all the processed attachments the run accumulated and nothing else; on every
\* no-op run and every failed run it receives no message.
C11_OneMessageOnSuccess ==
  \A r \in Reqs :
    /\ Len(Delivered(r)) <= 1
    /\ SuccessResponse(r) =>
         /\ Len(Delivered(r)) = 1
         /\ Len(sent[r]) = 1
         /\ Delivered(r)[1].message.To = DestinationOf(r)
         /\ Delivered(r)[1].message.Attachments = watermarkedAttachments[r]
         /\ Names(Delivered(r)[1].message.Attachments) = ProcessedNames(r)
         /\ \A i \in 1..Len(Delivered(r)[1].message.Attachments) :
              Delivered(r)[1].message.Attachments[i].Content # "orig"
    /\ (Done(r) /\ ~SuccessResponse(r)) => Delivered(r) = << >>
    /\ ~Done(r) => Delivered(r) = << >>

\* A run relayed two processed attachments to the tenant in one message.
C11_Witness ==
  \E r \in Reqs :
    /\ SuccessResponse(r)
    /\ Len(Delivered(r)) = 1
    /\ Delivered(r)[1].message.To = "ops@a"
    /\ Len(Delivered(r)[1].message.Attachments) = 2

\* A run that relayed nothing: every attachment failed.
C11_WitnessFailed ==
  \E r \in Reqs :
    Done(r) /\ Answer(r).status = 500 /\ calls[r].watermark > 0 /\ Delivered(r) = << >>


----------------------------------------------------------------------------
(* C12 *)

\* The gateway's verified sending identity, bare or with a display name.
GatewayIdentities == {"gateway@aquamark.io", "Aquamark <gateway@aquamark.io>"}

\* C12 (as stated): in every variant, every outgoing message has its sender
\* fixed to the gateway's verified sending identity (never the original
\* sender), its reply-to set to the original sender, and its destination set
\* to the tenant's destination_email.
C12_SenderIsGateway ==
  \A r \in Reqs :
    \A i \in 1..Len(sent[r]) :
      /\ sent[r][i].message.From \in GatewayIdentities
      /\ sent[r][i].message.From # email[r].From
      /\ sent[r][i].message.ReplyTo = email[r].From
      /\ sent[r][i].message.To = DestinationOf(r)

\* The same statement for the two variants that stage or batch.
C12_HoldsOutsideInline ==
  variant # "inline" => C12_SenderIsGateway


----------------------------------------------------------------------------
(* C13 *)

\* Names of the attachments request r submits to watermarking, in input order.
EligibleNames(r) ==
  LET atts == Attachments(r)
      F[i \in 0..Len(atts)] ==
        IF i = 0 THEN << >>
        ELSE IF i \in EligibleIdx(r) THEN Append(F[i - 1], atts[i].Name) ELSE F[i - 1]
  IN  F[Len(atts)]

\* Every collaborator answered every call of request r with success, as far as
\* the collaborator itself is concerned: the tenant was found, no upload,
\* watermark call or result download failed for a reason of its own, and the
\* mail provider accepted what it was given. An upload refused because the
\* object already exists is the storage service working as asked.
CollaboratorsServed(r) ==
  /\ funder[r] # NoFunder
  /\ \A i \in DOMAIN attResult[r] : attResult[r][i] \in {"ok", "skipped", "uploadExists"}
  /\ \A i \in 1..Len(sent[r]) : sent[r][i].accepted

\* No two attachments of request r have the same name.
DistinctNames(r) ==
  \A i, j \in 1..Len(Attachments(r)) :
    Attachments(r)[i].Name = Attachments(r)[j].Name => i = j

\* What the staging handler answers to request r when it runs alone and every
\* collaborator serves it.
AloneResponse(r) ==
  IF Len(Attachments(r)) = 0 THEN NoAttachments
  ELSE IF EligibleNames(r) = << >> THEN AllFailed
  ELSE Forwarded(Len(EligibleNames(r)))

\* C13 (as stated): concurrent deliveries share no mutable state. Under every
\* interleaving of two requests, the staging variant's upload and remove calls
\* on the temporary objects named from the clock and the file name included,
\* each request's response and relayed attachment set are what they are when
\* the request runs alone: with every collaborator serving it, the response
\* for its input and one message with all its eligible attachments.
C13_NoInterference ==
  \A r \in Reqs :
    (Done(r) /\ CollaboratorsServed(r) /\ DistinctNames(r)) =>
      /\ Answer(r) = AloneResponse(r)
      /\ \A i \in DOMAIN attResult[r] : attResult[r][i] # "uploadExists"
      /\ IF EligibleNames(r) = << >> THEN sent[r] = << >>
         ELSE /\ Len(sent[r]) = 1
              /\ Names(sent[r][1].message.Attachments) = EligibleNames(r)

\* Two requests at work at once on attachments of the same name.
C13_BothActive ==
  /\ \A r \in Reqs : pc[r] \notin {"idle", "received", "done"}
  /\ EligibleNames(1) # << >> /\ EligibleNames(1) = EligibleNames(2)


----------------------------------------------------------------------------
(* C14 *)

\* The stage a request is in, as a rank in the order Received (1),
\* TenantResolved (2), AttachmentsFiltered (3), Watermarking (4), Unpacking (5),
\* Relaying (6), Done or Failed (7). The tenant is resolved and the attachments
\* are filtered between two awaits, so no request rests in stage 2 or 3.
StageRank(where) ==
  CASE where \in {"idle", "received", "lookup"} -> 1
    [] where \in {"loop", "upload", "watermark", "download", "cleanup", "submit", "poll"} -> 4
    [] where = "downloadZip" -> 5
    [] where = "send" -> 6
    [] OTHER -> 7

\* The stage in which each kind of external call is made.
StageOfCall(what) ==
  CASE what = "directory" -> {1}
    [] what \in {"upload", "watermark", "poll", "remove"} -> {4}
    [] what = "download" -> IF variant = "async" THEN {5} ELSE {4}
    [] OTHER -> {6}

\* C14: a request moves through its stages in the order Received,
\* TenantResolved, AttachmentsFiltered, Watermarking, (Unpacking), Relaying,
\* Done, never backwards; the external calls are made in the order directory
\* lookup, watermark submission, job polls, result download, mail send, each
\* in its own stage and only after the stage before it succeeded; once the
\* request has ended, as Done or Failed, it makes no further call and writes
\* nothing more.
C14_StageOrder ==
  /\ [] \A r \in Reqs :
          /\ calls[r].directory <= 1
          /\ (\E c \in DOMAIN NoCalls \ {"directory"} : calls[r][c] > 0) =>
                (calls[r].directory = 1 /\ funder[r] # NoFunder /\ Len(Attachments(r)) > 0)
          /\ variant = "async" =>
                /\ calls[r].watermark <= 1
                /\ calls[r].poll > 0 => (calls[r].watermark = 1 /\ submitted[r].kind = "ok")
                /\ calls[r].download <= 1
                /\ calls[r].download > 0 =>
                      (calls[r].poll > 0 /\ jobCompleted[r] /\ lastPoll[r].kind = "completed")
                /\ calls[r].send > 0 =>
                      (calls[r].download = 1 /\ downloaded[r].kind = "ok")
          /\ variant = "staging" =>
                /\ calls[r].download <= calls[r].watermark
                /\ calls[r].watermark <= calls[r].upload
                /\ calls[r].watermark <= Len(tempFiles[r])
                /\ calls[r].send > 0 => removed[r] = tempFiles[r]
          /\ calls[r].send > 0 =>
                /\ Len(watermarkedAttachments[r]) > 0
                /\ PerFile => idx[r] > Len(Attachments(r))
          /\ StageRank(pc[r]) \in {5, 6} => Len(Attachments(r)) > 0
  /\ [][\A r \in Reqs :
          /\ StageRank(pc'[r]) >= StageRank(pc[r])
          /\ \A c \in DOMAIN NoCalls :
               calls'[r][c] # calls[r][c] =>
                 (calls'[r][c] = calls[r][c] + 1 /\ StageRank(pc[r]) \in StageOfCall(c))
          /\ Done(r) =>
               (pc'[r] = "done" /\ calls'[r] = calls[r] /\ responses'[r] = responses[r]
                  /\ sent'[r] = sent[r])]_vars

\* A batch request went through every stage: it was submitted, polled twice,
\* downloaded, sent and answered.
C14_Witness ==
  \E r \in Reqs :
    /\ variant = "async" /\ Done(r) /\ Answer(r).status = 200
    /\ calls[r] = [NoCalls EXCEPT !.directory = 1, !.watermark = 1, !.poll = 2,
                                  !.download = 1, !.send = 1]

\* A request failed in the Unpacking stage, after the download.
C14_WitnessFailedLate ==
  \E r \in Reqs :
    /\ Done(r) /\ Answer(r).status = 500
    /\ calls[r].download = 1 /\ variant = "async" /\ calls[r].send = 0


----------------------------------------------------------------------------
(* C15 *)

\* Every collaborator served every call of request r, in any variant.
Served(r) ==
  /\ CollaboratorsServed(r)
  /\ variant = "async" =>
       /\ submitted[r].kind = "ok"
       /\ lastPoll[r].kind = "completed"
       /\ downloaded[r].kind = "ok"
       /\ DocumentEntryNames(downloaded[r].zip) # << >>

\* C15: when the watermarking service is unavailable at submission (a non-2xx
\* answer or a network failure), the batch variant ends the request with one
\* HTTP 500 whose message carries the upstream status and body, and no poll,
\* download or send follows; in the per-file variants the failure is confined
\* to that attachment: the loop goes on, the other attachments are relayed, and
\* only a request with nothing left answers 500. In both cases the handler
\* answers, and a request that arrives afterwards is served as if nothing had
\* happened.
C15_ServiceUnavailable ==
  /\ \A r \in Reqs :
       /\ (variant = "async" /\ submitted[r].kind \in {"non2xx", "throw"}) =>
             /\ Done(r)
             /\ Len(responses[r]) = 1
             /\ Answer(r).status = 500
             /\ Answer(r).body[1] = "error" /\ Answer(r).body[2] = "Processing failed"
             /\ submitted[r].kind = "non2xx" =>
                  Answer(r).body = <<"error", "Processing failed", "Watermarking API failed",
                                     submitted[r].status, "errorText">>
             /\ calls[r].poll = 0 /\ calls[r].download = 0 /\ calls[r].send = 0
             /\ sent[r] = << >>
       /\ (PerFile /\ \E i \in DOMAIN attResult[r] : attResult[r][i] = "watermarkError") =>
             /\ pc[r] \in {"loop", "upload", "watermark", "download", "cleanup", "send", "done"}
             /\ Done(r) =>
                  /\ Len(responses[r]) = 1
                  /\ \A i \in DOMAIN attResult[r] : attResult[r][i] # "none"
                  /\ IF SucceededNames(r) = << >>
                       THEN sent[r] = << >> /\ Answer(r) = AllFailed
                       ELSE /\ Len(sent[r]) = 1
                            /\ Names(sent[r][1].message.Attachments) = SucceededNames(r)
  /\ (Done(1) /\ Done(2) /\ Served(2)) =>
       /\ SuccessResponse(2)
       /\ Len(Delivered(2)) = 1
       /\ Delivered(2)[1].message.Attachments # << >>

\* The first request met an unavailable service and answered 500 with the
\* upstream status; the second, after it, was relayed.
C15_Witness ==
  /\ variant = "async"
  /\ submitted[1].kind = "non2xx" /\ Done(1) /\ Answer(1).status = 500
  /\ Answer(1).body[4] = submitted[1].status
  /\ Done(2) /\ SuccessResponse(2)

\* Per-file: the first attachment's call failed, the second was relayed, and a
\* second request was then relayed too.
C15_WitnessPerFile ==
  /\ variant = "staging"
  /\ Len(attResult[1]) = 2 /\ attResult[1][1] = "watermarkError" /\ attResult[1][2] = "ok"
  /\ Done(1) /\ Len(Delivered(1)) = 1
  /\ Done(2) /\ SuccessResponse(2)


----------------------------------------------------------------------------
(* C16 *)

\* C16: batch variant. The first poll k, 1 <= k <= 15, that reports completed
\* ends the poll loop with success and not with the timeout, also when k is
\* the 15th and last attempt; no poll k+1 is issued; the reported result
\* location is downloaded exactly once; and a failed download ends the request
\* with HTTP 500 without a mail send.
C16_CompletedEndsLoop ==
  /\ [] \A r \in Reqs :
          /\ lastPoll[r].kind = "completed" =>
                /\ calls[r].poll >= 1 /\ calls[r].poll <= MaxPollAttempts
                /\ attempts[r] = calls[r].poll
                /\ jobCompleted[r]
                /\ downloadUrl[r] = "download_url"
                /\ pc[r] \in {"downloadZip", "send", "done"}
                /\ Answered(r) => Answer(r) # JobTimedOut
                /\ calls[r].download = (IF pc[r] = "downloadZip" THEN 0 ELSE 1)
                /\ (downloaded[r].kind = "none") = (pc[r] = "downloadZip")
                /\ downloaded[r].kind \in {"non2xx", "throw"} =>
                      /\ Done(r)
                      /\ Len(responses[r]) = 1
                      /\ Answer(r).status = 500
                      /\ calls[r].send = 0
                      /\ sent[r] = << >>
          /\ calls[r].download > 0 /\ variant = "async" => lastPoll[r].kind = "completed"
  /\ [][\A r \in Reqs :
          lastPoll[r].kind = "completed" =>
            /\ calls'[r].poll = calls[r].poll
            /\ lastPoll'[r] = lastPoll[r]
            /\ calls'[r].download <= 1]_vars

\* The job was reported completed on the 15th poll, after 14 pending ones, and
\* the request was relayed.
C16_Witness ==
  \E r \in Reqs :
    /\ lastPoll[r].kind = "completed" /\ calls[r].poll = MaxPollAttempts
    /\ calls[r].download = 1
    /\ Done(r) /\ Answer(r).status = 200 /\ Len(Delivered(r)) = 1

\* Completed on an early poll, and the download failed.
C16_WitnessDownloadFailed ==
  \E r \in Reqs :
    /\ lastPoll[r].kind = "completed" /\ calls[r].poll = 2
    /\ downloaded[r].kind = "non2xx"
    /\ Done(r) /\ Answer(r).status = 500 /\ sent[r] = << >>


----------------------------------------------------------------------------
(* C17 *)

\* The positions of the input attachments that were pushed onto the
\* accumulation so far.
PushedIdx(r) ==
  { i \in DOMAIN attResult[r] : attResult[r][i] \in {"ok", "downloadNon2xx"} }

\* The names at the positions idxs of the input list, in input order.
NamesAt(r, idxs) ==
  LET atts == Attachments(r)
      F[i \in 0..Len(atts)] ==
        IF i = 0 THEN << >>
        ELSE IF i \in idxs THEN Append(F[i - 1], atts[i].Name) ELSE F[i - 1]
  IN  F[Len(atts)]

\* s is t with some elements left out.
IsSubsequence(s, t) ==
  LET M[i \in 0..Len(s), j \in 0..Len(t)] ==
        IF i = 0 THEN TRUE
        ELSE IF j = 0 THEN FALSE
        ELSE \/ M[i, j - 1]
             \/ s[i] = t[j] /\ M[i - 1, j - 1]
  IN  M[Len(s), Len(t)]

\* C17: per-file variants. The attachments of the outgoing message are in the
\* order of the input attachments they come from: the accumulation is, at
\* every moment, the pushed input positions in increasing order, hence an
\* order-preserving subsequence of the eligible input list, whichever
\* attachments failed.
C17_InputOrder ==
  \A r \in Reqs :
    PerFile =>
      /\ PushedIdx(r) \subseteq EligibleIdx(r)
      /\ Names(watermarkedAttachments[r]) = NamesAt(r, PushedIdx(r))
      /\ IsSubsequence(Names(watermarkedAttachments[r]), EligibleNames(r))
      /\ \A i \in 1..Len(sent[r]) :
           /\ Names(sent[r][i].message.Attachments) = NamesAt(r, PushedIdx(r))
           /\ IsSubsequence(Names(sent[r][i].message.Attachments), Names(Attachments(r)))

\* Two attachments of different names were relayed, in input order.
C17_Witness ==
  \E r \in Reqs :
    /\ PerFile /\ Len(sent[r]) = 1
    /\ Len(Attachments(r)) = 2
    /\ Attachments(r)[1].Name # Attachments(r)[2].Name
    /\ Names(sent[r][1].message.Attachments) = Names(Attachments(r))


----------------------------------------------------------------------------
(* C18 *)

\* C18: batch variant. Provided every status call returns, the poll loop
\* terminates: it issues at most 15 polls, each preceded by one wait of 2
\* time-units (no backoff), so that the cumulative wait is twice the number of
\* polls and never more than 30 time-units, whatever statuses and non-2xx
\* answers the service gives.
C18_PollLoopTerminates ==
  /\ [] \A r \in Reqs :
          /\ calls[r].poll <= MaxPollAttempts
          /\ attempts[r] <= MaxPollAttempts
          /\ waited[r] = PollDelay * calls[r].poll
          /\ waited[r] <= 30
  /\ [][\A r \in Reqs :
          /\ waited'[r] \in {waited[r], waited[r] + 2}
          /\ (waited'[r] # waited[r]) = (calls'[r].poll = calls[r].poll + 1)
          /\ calls'[r].poll \in {calls[r].poll, calls[r].poll + 1}]_vars
  /\ \A r \in Reqs : (pc[r] = "poll") ~> (pc[r] # "poll")
  /\ \A r \in Reqs : <>[](pc[r] # "poll")

\* Fifteen polls answered with a non-2xx status: the loop was left after 30
\* time-units of waiting.
C18_Witness ==
  \E r \in Reqs :
    /\ calls[r].poll = MaxPollAttempts
    /\ lastPoll[r].kind = "non2xx"
    /\ waited[r] = 30
    /\ pc[r] # "poll"


----------------------------------------------------------------------------
(* C19 *)

\* C19 (as stated): in every 200 success response the attachment count the
\* payload reports equals the number of attachments the outgoing message of
\* that request carries, in the batch variant too.
C19_ReportedCount ==
  \A r \in Reqs :
    SuccessResponse(r) =>
      /\ Len(Delivered(r)) = 1
      /\ Answer(r).count = Len(Delivered(r)[1].message.Attachments)

\* The same statement for the per-file variants only.
C19_PerFileCount ==
  PerFile => C19_ReportedCount


----------------------------------------------------------------------------
(* C20 *)

\* C20 (as stated): per-file variants. An attachment is added to the outgoing
\* message only if both its watermarking call and the retrieval of the
\* watermarked result succeeded: a non-2xx answer to the download of the
\* returned file_url makes the attachment be skipped, not relayed.
C20_OnlyRetrievedResults ==
  \A r \in Reqs :
    PerFile =>
      /\ Len(watermarkedAttachments[r]) =
           Cardinality({ i \in DOMAIN attResult[r] : attResult[r][i] = "ok" })
      /\ \A k \in 1..Len(watermarkedAttachments[r]) :
           watermarkedAttachments[r][k].Content = "watermarked"
      /\ \A m \in 1..Len(sent[r]) :
           \A k \in 1..Len(sent[r][m].message.Attachments) :
             sent[r][m].message.Attachments[k].Content = "watermarked"

\* The same statement for the variant without a separate result download.
C20_InlineOnly ==
  variant = "inline" => C20_OnlyRetrievedResults


----------------------------------------------------------------------------
(* C21 *)

\* One step of the handler of request r, whichever it is.
HandlerStep(r) ==
  \/ Receive(r) \/ LookupFunder(r) \/ LoopNext(r) \/ UploadTemp(r) \/ CallWatermark(r)
  \/ DownloadResult(r) \/ RemoveTemp(r) \/ SubmitJob(r) \/ PollJob(r) \/ DownloadZip(r)
  \/ SendEmail(r)

\* C21: every request receives exactly one HTTP response on every execution
\* path: a handler that has ended has written one response, a handler that has
\* not ended has written none and has a next step to take, a response is
\* written only by a handler that wrote none before and ends by writing it,
\* and nothing is written after it.
C21_ExactlyOneResponse ==
  /\ [] \A r \in Reqs :
          /\ Len(responses[r]) <= 1
          /\ Done(r) <=> Len(responses[r]) = 1
          /\ Done(r) => Answer(r).status \in {200, 404, 500}
          /\ (pc[r] \notin {"idle", "done"}) => ENABLED HandlerStep(r)
  /\ [][\A r \in Reqs :
          \/ responses'[r] = responses[r]
          \/ /\ responses[r] = << >>
             /\ Len(responses'[r]) = 1
             /\ ~Done(r) /\ pc'[r] = "done"]_vars

\* The request answered once after its send was rejected, the path through
\* the outermost catch.
C21_Witness ==
  \E r \in Reqs :
    /\ Done(r) /\ Len(responses[r]) = 1
    /\ Len(sent[r]) = 1 /\ ~sent[r][1].accepted
    /\ Answer(r).status = 500


----------------------------------------------------------------------------
(* C22 *)

\* The contents the inbound email of request r carries.
InboundContents(r) == { Attachments(r)[i].Content : i \in 1..Len(Attachments(r)) }

\* What the watermarking side can hand back in each variant: the content field
\* of the direct answer, the body of the download of file_url, the data of an
\* archive entry.
ResultContents ==
  CASE variant = "inline" -> {WatermarkedFile.content}
    [] variant = "staging" -> {"watermarked", "errorBody"}
    [] OTHER -> {"watermarked"}

\* C22: original attachment content is never relayed. In every reachable
\* state the content of each attachment accumulated for, or carried by, an
\* outgoing message was obtained from the watermarking side (direct answer,
\* downloaded file or archive entry) and is never a content of the inbound
\* email, also when watermarking fails for some or all attachments; with
\* nothing obtained, nothing is sent.
C22_NeverOriginalContent ==
  \A r \in Reqs :
    /\ \A k \in 1..Len(watermarkedAttachments[r]) :
         /\ watermarkedAttachments[r][k].Content \notin InboundContents(r)
         /\ watermarkedAttachments[r][k].Content \in ResultContents
    /\ \A m \in 1..Len(sent[r]) :
         /\ sent[r][m].message.Attachments # << >>
         /\ \A k \in 1..Len(sent[r][m].message.Attachments) :
              /\ sent[r][m].message.Attachments[k].Content \notin InboundContents(r)
              /\ sent[r][m].message.Attachments[k].Content \in ResultContents

\* Inline variant: of two attachments one failed, and the message carries the
\* service's content for the other.
C22_Witness ==
  \E r \in Reqs :
    /\ variant = "inline"
    /\ Len(Attachments(r)) = 2
    /\ \E i \in 1..2 : attResult[r][i] = "watermarkError"
    /\ Len(Delivered(r)) = 1
    /\ Delivered(r)[1].message.Attachments[1].Content = "watermarked"
    /\ "orig" \in InboundContents(r)


====
